---------------------------- MODULE Spec2Model ----------------------------
(***************************************************************************)
(* A model of the two optimisation routines of autodiffb.py:               *)
(*                                                                         *)
(*   gd(f, x0, step, decay, niter)   gradient descent, lines 77-85         *)
(*   newton(f, x0, niter)            Newton's method,  lines 109-115       *)
(*                                                                         *)
(* The routines compute in binary floating point.  Numbers are modelled    *)
(* as a reduced IEEE-754 style binary format: Prec significant bits,       *)
(* round to nearest (ties to even), gradual underflow, overflow to an      *)
(* infinity, and a not-a-number.  A finite value is an integer count n of  *)
(* the smallest quantum 2^-FracBits.  Zero carries no sign, so x/0 takes   *)
(* the sign of x.  Python's float and the element type of a jax array are  *)
(* two such formats; the model gives both the same width, and the          *)
(* arguments a caller passes are values of it.                             *)
(*                                                                         *)
(* Python objects live on a heap (a sequence of objects addressed by their *)
(* index); names hold addresses.  Every line of the two routines is one    *)
(* action, the program counter pc names the line about to run.             *)
(***************************************************************************)
EXTENDS Integers, Sequences, FiniteSets

\* ------------------------------------------------------------ bounds

\* Significant bits of the number format.
Prec == 3
\* The smallest positive number is 2^-FracBits.
FracBits == 2
\* The largest finite number is (2^Prec - 1) * 2^MaxShift quanta.
MaxShift == 4
\* The largest iteration count a caller passes.
MaxIter == 3
\* The number of calls made in one behaviour (the first, then repeats).
MaxCalls == 2

\* ------------------------------------------------------------ numbers

RECURSIVE Pow2(_)
Pow2(e) == IF e <= 0 THEN 1 ELSE 2 * Pow2(e - 1)

Abs(n) == IF n < 0 THEN -n ELSE n

Sgn(n) == IF n < 0 THEN -1 ELSE IF n > 0 THEN 1 ELSE 0

One == Pow2(FracBits)

MaxFin == (Pow2(Prec) - 1) * Pow2(MaxShift)

Fin(n) == [k |-> "fin", n |-> n]
Inf(s) == [k |-> "inf", n |-> s]
NaN == [k |-> "nan", n |-> 0]
Zero == Fin(0)
MaxVal == Fin(MaxFin)

IsFinite(v) == v.k = "fin"

\* The exponent of the quantum in which a/d is rounded: the least e >= 0
\* with a/d < 2^(Prec+e); MaxShift+1 stands for every larger one.
RECURSIVE QuantumExp(_, _, _)
QuantumExp(a, d, e) ==
  IF e > MaxShift \/ a < d * Pow2(Prec + e) THEN e ELSE QuantumExp(a, d, e + 1)

\* a/d rounded to the nearest integer, ties to the even one (a >= 0, d > 0).
NearestEven(a, d) ==
  LET q == a \div d
      r == a % d
  IN  IF 2 * r < d THEN q
      ELSE IF 2 * r > d THEN q + 1
      ELSE IF q % 2 = 0 THEN q ELSE q + 1

\* The rational num/den (den > 0, in quanta) rounded into the format.
RoundQ(num, den) ==
  LET a == Abs(num)
      e == QuantumExp(a, den, 0)
      m == IF e > MaxShift THEN 0 ELSE NearestEven(a, den * Pow2(e)) * Pow2(e)
  IN  IF e > MaxShift \/ m > MaxFin THEN Inf(Sgn(num)) ELSE Fin(Sgn(num) * m)

\* The number num/den as a value of the format.
Flt(num, den) == RoundQ(num * One, den)

FNeg(x) == IF x.k = "nan" THEN NaN ELSE [x EXCEPT !.n = -x.n]

FAdd(x, y) ==
  IF x.k = "nan" \/ y.k = "nan" THEN NaN
  ELSE IF x.k = "inf" /\ y.k = "inf" THEN (IF x.n = y.n THEN x ELSE NaN)
  ELSE IF x.k = "inf" THEN x
  ELSE IF y.k = "inf" THEN y
  ELSE RoundQ(x.n + y.n, 1)

FSub(x, y) == FAdd(x, FNeg(y))

FMul(x, y) ==
  IF x.k = "nan" \/ y.k = "nan" THEN NaN
  ELSE IF x.k = "inf" \/ y.k = "inf"
       THEN (IF x.n = 0 \/ y.n = 0 THEN NaN ELSE Inf(Sgn(x.n) * Sgn(y.n)))
  ELSE RoundQ(x.n * y.n, One)

FDiv(x, y) ==
  IF x.k = "nan" \/ y.k = "nan" THEN NaN
  ELSE IF x.k = "inf"
       THEN (IF y.k = "inf" THEN NaN
             ELSE Inf(IF y.n < 0 THEN -x.n ELSE x.n))
  ELSE IF y.k = "inf" THEN Zero
  ELSE IF y.n = 0 THEN (IF x.n = 0 THEN NaN ELSE Inf(Sgn(x.n)))
  ELSE RoundQ(Sgn(y.n) * x.n * One, Abs(y.n))

\* x <= y; false as soon as one side is not a number.
FLe(x, y) ==
  IF x.k = "nan" \/ y.k = "nan" THEN FALSE
  ELSE IF x.k = "inf" THEN (x.n < 0 \/ (y.k = "inf" /\ y.n > 0))
  ELSE IF y.k = "inf" THEN y.n > 0
  ELSE x.n <= y.n

\* Arrays: a scalar is an array of one element.
VSub(xs, ys) == [j \in 1..Len(xs) |-> FSub(xs[j], ys[j])]
VScale(xs, s) == [j \in 1..Len(xs) |-> FMul(xs[j], s)]
VDiv(xs, ys) == [j \in 1..Len(xs) |-> FDiv(xs[j], ys[j])]
AllFinite(xs) == \A j \in 1..Len(xs) : IsFinite(xs[j])
NoneFinite(xs) == \A j \in 1..Len(xs) : ~IsFinite(xs[j])
AllZero(xs) == \A j \in 1..Len(xs) : xs[j] = Zero

\* ------------------------------------------------------------ objectives

\* A function value: an objective (order 0) or a derivative of one.  The
\* objectives are (x-c)^2, c*x, x^3 and, on arrays, the sum of squares.
NoFn == [kind |-> "none", c |-> Zero, order |-> 0]
Quad(c) == [kind |-> "quad", c |-> c, order |-> 0]
Lin(c) == [kind |-> "lin", c |-> c, order |-> 0]
Cube == [kind |-> "cube", c |-> Zero, order |-> 0]
SumSq == [kind |-> "sumsq", c |-> Zero, order |-> 0]

Two == Flt(2, 1)
Three == Flt(3, 1)

\* jax.grad(fn): the derivative function of fn.
Grad(fn) == [fn EXCEPT !.order = @ + 1]

\* fn(xv): the value, the gradient or the second derivative at xv, each
\* computed in the format the way automatic differentiation computes it.
Apply(fn, xv) ==
  LET x1 == xv[1]
  IN  CASE fn.kind = "quad" ->
             (LET d == FSub(x1, fn.c)
              IN  CASE fn.order = 0 -> <<FMul(d, d)>>
                    [] fn.order = 1 -> <<FMul(Two, d)>>
                    [] OTHER -> <<Two>>)
        [] fn.kind = "lin" ->
             (CASE fn.order = 0 -> <<FMul(fn.c, x1)>>
                [] fn.order = 1 -> <<fn.c>>
                [] OTHER -> <<Zero>>)
        [] fn.kind = "cube" ->
             (CASE fn.order = 0 -> <<FMul(FMul(x1, x1), x1)>>
                [] fn.order = 1 -> <<FMul(Three, FMul(x1, x1))>>
                [] OTHER -> <<FMul(Three, FMul(Two, x1))>>)
        [] OTHER ->
             (CASE fn.order = 0 -> <<FAdd(FMul(xv[1], xv[1]), FMul(xv[2], xv[2]))>>
                [] OTHER -> [j \in 1..Len(xv) |-> FMul(Two, xv[j])])

\* ------------------------------------------------------------ objects

\* A Python float or a jax array; neither can be changed once made.
FloatObj(v) == [type |-> "float", val |-> <<v>>]
ArrayObj(vs) == [type |-> "Array", val |-> vs]
NoObj == [type |-> "none", val |-> <<>>]

\* An augmented assignment (name -= ..., name *= ...) whose result is obj:
\* float and jax array define no in-place operator, so Python makes a new
\* object and rebinds the name to it.
AugAssign_InPlace(h, ref, obj) == [heap |-> [h EXCEPT ![ref] = obj], ref |-> ref]

AugAssign(h, ref, obj) == [heap |-> Append(h, obj), ref |-> Len(h) + 1]

\* ------------------------------------------------------------ inputs

CSet == {Zero, Flt(1, 1), Flt(-3, 2)}
ScalarObjectives == {Quad(c) : c \in CSet} \cup {Lin(Flt(1, 1)), Cube}
X0Scalars == {Zero, Flt(1, 1), Flt(-3, 2), Flt(1, 4), Flt(10, 1), MaxVal}
X0Vectors == {<<Zero, Zero>>, <<Flt(1, 1), Flt(-3, 2)>>, <<Flt(10, 1), Flt(1, 4)>>}
StepSet == {Flt(1, 4), Flt(1, 2), Flt(1, 1), Flt(2, 1)}
DecaySet == {Flt(1, 2), Flt(1, 1), Flt(4, 1)}
X0Objects == {FloatObj(v) : v \in X0Scalars} \cup {ArrayObj(<<v>>) : v \in X0Scalars}

\* ------------------------------------------------------------ state

VARIABLES
  pc,         \* the line about to run: "idle", "gd80".."gd85", "nt110".."nt115", "done"
  proc,       \* "gd" or "newton" ("none" before the first call)
  calls,      \* calls started so far
  args,       \* the call's arguments: f, niter, and the addresses of x0, step, decay
  heap,       \* the objects, addressed by index
  df, ddf,    \* the routine's derivative functions (NoFn while unbound)
  x, step,    \* the routine's names x and step: addresses (0 while unbound)
  i,          \* the loop variable (-1 before the loop)
  ret,        \* the address returned (0 until the return)
  gradCalls,  \* history: calls of jax.grad in this call of the routine
  updates,    \* history: updates of x in this call
  xs,         \* history: the objects x was bound to in this call, in order
  used,       \* history: the step sizes the updates of this call multiplied by
  stepLog,    \* history: the objects step was bound to in this call, in order
  callerHeap, \* history: the heap as the caller left it when the call started
  first       \* history: xs and the returned object of the first call

vars == <<pc, proc, calls, args, heap, df, ddf, x, step, i, ret,
          gradCalls, updates, xs, used, stepLog, callerHeap, first>>

NoArgs == [f |-> NoFn, x0 |-> 0, step |-> 0, decay |-> 0, niter |-> 0]

Init ==
  /\ pc = "idle"
  /\ proc = "none"
  /\ calls = 0
  /\ args = NoArgs
  /\ heap = <<>>
  /\ df = NoFn
  /\ ddf = NoFn
  /\ x = 0
  /\ step = 0
  /\ i = -1
  /\ ret = 0
  /\ gradCalls = 0
  /\ updates = 0
  /\ xs = <<>>
  /\ used = <<>>
  /\ stepLog = <<>>
  /\ callerHeap = <<>>
  /\ first = [xs |-> <<>>, ret |-> NoObj]

\* ------------------------------------------------------------ control

\* The line that follows a line in program order (the loop head: the body).
Succ_DecayFirst(line) ==
  CASE line = "gd80" -> "gd81"
    [] line = "gd81" -> "gd82"
    [] line = "gd82" -> "gd84"
    [] line = "gd84" -> "gd83"
    [] line = "gd83" -> "gd82"
    [] line = "nt110" -> "nt111"
    [] line = "nt111" -> "nt112"
    [] line = "nt112" -> "nt113"
    [] line = "nt113" -> "nt114"
    [] OTHER -> "nt113"

Succ(line) ==
  CASE line = "gd80" -> "gd81"
    [] line = "gd81" -> "gd82"
    [] line = "gd82" -> "gd83"
    [] line = "gd83" -> "gd84"
    [] line = "gd84" -> "gd82"
    [] line = "nt110" -> "nt111"
    [] line = "nt111" -> "nt112"
    [] line = "nt112" -> "nt113"
    [] line = "nt113" -> "nt114"
    [] OTHER -> "nt113"

\* for i in range(niter): whether another value follows i.
RangeHasNext_Inclusive(cur, niter) == cur + 1 <= niter

RangeHasNext(cur, niter) == cur + 1 < niter

\* The names of a routine as its call starts: the parameters are bound to
\* the arguments, everything else is unbound.
Enter(line, p, a) ==
  /\ pc' = line
  /\ proc' = p
  /\ args' = a
  /\ calls' = calls + 1
  /\ df' = NoFn
  /\ ddf' = NoFn
  /\ x' = 0
  /\ step' = a.step
  /\ i' = -1
  /\ ret' = 0
  /\ gradCalls' = 0
  /\ updates' = 0
  /\ xs' = <<>>
  /\ used' = <<>>
  /\ stepLog' = IF a.step = 0 THEN <<>> ELSE <<heap'[a.step]>>
  /\ callerHeap' = heap'

\* ------------------------------------------------------------ gd

\* gd(f, x0, step, decay, niter): the caller makes the argument objects.
CallGd ==
  /\ pc = "idle"
  /\ \E f \in ScalarObjectives \cup {SumSq}, s \in StepSet, d \in DecaySet, n \in 0..MaxIter :
       \E x0 \in (IF f = SumSq THEN {ArrayObj(v) : v \in X0Vectors} ELSE X0Objects) :
          /\ heap' = <<x0, FloatObj(s), FloatObj(d)>>
          /\ Enter("gd80", "gd", [f |-> f, x0 |-> 1, step |-> 2, decay |-> 3, niter |-> n])
  /\ UNCHANGED first

\* line 80: df = jax.grad(f)
Gd80 ==
  /\ pc = "gd80"
  /\ df' = Grad(args.f)
  /\ gradCalls' = gradCalls + 1
  /\ pc' = Succ(pc)
  /\ UNCHANGED <<proc, calls, args, heap, ddf, x, step, i, ret, updates, xs, used,
                 stepLog, callerHeap, first>>

\* line 81: x = x0
Gd81 ==
  /\ pc = "gd81"
  /\ x' = args.x0
  /\ xs' = <<heap[args.x0]>>
  /\ pc' = Succ(pc)
  /\ UNCHANGED <<proc, calls, args, heap, df, ddf, step, i, ret, gradCalls, updates,
                 used, stepLog, callerHeap, first>>

\* line 82: for i in range(niter)
Gd82 ==
  /\ pc = "gd82"
  /\ IF RangeHasNext(i, args.niter)
     THEN i' = i + 1 /\ pc' = Succ(pc)
     ELSE i' = i /\ pc' = "gd85"
  /\ UNCHANGED <<proc, calls, args, heap, df, ddf, x, step, ret, gradCalls, updates,
                 xs, used, stepLog, callerHeap, first>>

\* x - df(x)*step, on arrays
GdStepValue_Ascent(xv, g, s) == [j \in 1..Len(xv) |-> FAdd(xv[j], FMul(g[j], s))]

GdStepValue(xv, g, s) == VSub(xv, VScale(g, s))

\* line 83: x -= df(x)*step
Gd83_Regrad ==
  /\ pc = "gd83"
  /\ LET dfn == Grad(args.f)
         s == heap[step].val[1]
         r == AugAssign(heap, x, ArrayObj(GdStepValue(heap[x].val, Apply(dfn, heap[x].val), s)))
     IN  /\ heap' = r.heap
         /\ x' = r.ref
         /\ df' = dfn
         /\ gradCalls' = gradCalls + 1
         /\ xs' = Append(xs, r.heap[r.ref])
         /\ used' = Append(used, s)
  /\ updates' = updates + 1
  /\ pc' = Succ(pc)
  /\ UNCHANGED <<proc, calls, args, ddf, step, i, ret, stepLog, callerHeap, first>>

Gd83 ==
  /\ pc = "gd83"
  /\ LET s == heap[step].val[1]
         r == AugAssign(heap, x, ArrayObj(GdStepValue(heap[x].val, Apply(df, heap[x].val), s)))
     IN  /\ heap' = r.heap
         /\ x' = r.ref
         /\ xs' = Append(xs, r.heap[r.ref])
         /\ used' = Append(used, s)
  /\ updates' = updates + 1
  /\ pc' = Succ(pc)
  /\ UNCHANGED <<proc, calls, args, df, ddf, step, i, ret, gradCalls, stepLog,
                 callerHeap, first>>

\* step * decay
Decayed_Twice(s, d) == FMul(FMul(s, d), d)

Decayed(s, d) == FMul(s, d)

\* line 84: step *= decay
Gd84 ==
  /\ pc = "gd84"
  /\ LET r == AugAssign(heap, step,
                        FloatObj(Decayed(heap[step].val[1], heap[args.decay].val[1])))
     IN  /\ heap' = r.heap
         /\ step' = r.ref
         /\ stepLog' = Append(stepLog, r.heap[r.ref])
  /\ pc' = Succ(pc)
  /\ UNCHANGED <<proc, calls, args, df, ddf, x, i, ret, gradCalls, updates, xs, used,
                 callerHeap, first>>

\* line 85: return x
Gd85 ==
  /\ pc = "gd85"
  /\ ret' = x
  /\ pc' = "done"
  /\ UNCHANGED <<proc, calls, args, heap, df, ddf, x, step, i, gradCalls, updates, xs,
                 used, stepLog, callerHeap, first>>

\* ------------------------------------------------------------ newton

\* newton(f, x0, niter): the caller makes the argument object.
CallNewton ==
  /\ pc = "idle"
  /\ \E f \in ScalarObjectives, x0 \in X0Objects, n \in 0..MaxIter :
       /\ heap' = <<x0>>
       /\ Enter("nt110", "newton", [f |-> f, x0 |-> 1, step |-> 0, decay |-> 0, niter |-> n])
  /\ UNCHANGED first

\* line 110: df = jax.grad(f)
Nt110 ==
  /\ pc = "nt110"
  /\ df' = Grad(args.f)
  /\ gradCalls' = gradCalls + 1
  /\ pc' = Succ(pc)
  /\ UNCHANGED <<proc, calls, args, heap, ddf, x, step, i, ret, updates, xs, used,
                 stepLog, callerHeap, first>>

\* line 111: ddf = jax.grad(df)
Nt111 ==
  /\ pc = "nt111"
  /\ ddf' = Grad(df)
  /\ gradCalls' = gradCalls + 1
  /\ pc' = Succ(pc)
  /\ UNCHANGED <<proc, calls, args, heap, df, x, step, i, ret, updates, xs, used,
                 stepLog, callerHeap, first>>

\* line 112: x = x0
Nt112 ==
  /\ pc = "nt112"
  /\ x' = args.x0
  /\ xs' = <<heap[args.x0]>>
  /\ pc' = Succ(pc)
  /\ UNCHANGED <<proc, calls, args, heap, df, ddf, step, i, ret, gradCalls, updates,
                 used, stepLog, callerHeap, first>>

\* line 113: for i in range(niter)
Nt113 ==
  /\ pc = "nt113"
  /\ IF RangeHasNext(i, args.niter)
     THEN i' = i + 1 /\ pc' = Succ(pc)
     ELSE i' = i /\ pc' = "nt115"
  /\ UNCHANGED <<proc, calls, args, heap, df, ddf, x, step, ret, gradCalls, updates,
                 xs, used, stepLog, callerHeap, first>>

\* x - df(x)/ddf(x)
NewtonStepValue_NoDivision(xv, g, h) == VSub(xv, g)

NewtonStepValue_Guarded(xv, g, h) == IF AllZero(h) THEN xv ELSE VSub(xv, VDiv(g, h))

NewtonStepValue_Inverted(xv, g, h) == VSub(xv, VDiv(h, g))

NewtonStepValue(xv, g, h) == VSub(xv, VDiv(g, h))

\* line 114: x = x - df(x)/ddf(x)
Nt114 ==
  /\ pc = "nt114"
  /\ LET xv == heap[x].val
         obj == ArrayObj(NewtonStepValue(xv, Apply(df, xv), Apply(ddf, xv)))
     IN  /\ heap' = Append(heap, obj)
         /\ x' = Len(heap) + 1
         /\ xs' = Append(xs, obj)
  /\ updates' = updates + 1
  /\ pc' = Succ(pc)
  /\ UNCHANGED <<proc, calls, args, df, ddf, step, i, ret, gradCalls, used, stepLog,
                 callerHeap, first>>

\* line 115: return x
Nt115 ==
  /\ pc = "nt115"
  /\ ret' = x
  /\ pc' = "done"
  /\ UNCHANGED <<proc, calls, args, heap, df, ddf, x, step, i, gradCalls, updates, xs,
                 used, stepLog, callerHeap, first>>

\* ------------------------------------------------------------ repeated call

FirstLine(p) == IF p = "gd" THEN "gd80" ELSE "nt110"

\* The caller calls the same routine again with the same argument objects.
Recall_KeepsStep ==
  /\ pc = "done"
  /\ calls < MaxCalls
  /\ heap' = heap
  /\ Enter(FirstLine(proc), proc, [args EXCEPT !.step = step])
  /\ first' = IF calls = 1 THEN [xs |-> xs, ret |-> heap[ret]] ELSE first

Recall ==
  /\ pc = "done"
  /\ calls < MaxCalls
  /\ heap' = heap
  /\ Enter(FirstLine(proc), proc, args)
  /\ first' = IF calls = 1 THEN [xs |-> xs, ret |-> heap[ret]] ELSE first

\* ------------------------------------------------------------ specification

Next ==
  \/ CallGd
  \/ Gd80
  \/ Gd81
  \/ Gd82
  \/ Gd83
  \/ Gd84
  \/ Gd85
  \/ CallNewton
  \/ Nt110
  \/ Nt111
  \/ Nt112
  \/ Nt113
  \/ Nt114
  \/ Nt115
  \/ Recall

Spec == Init /\ [][Next]_vars

\* ------------------------------------------------------------ properties

Running == pc \notin {"idle", "done"}
Returned == pc = "done"

\* The caller's step0 and decay (gd), as the caller left them.
Step0 == callerHeap[args.step].val[1]
Decay0 == callerHeap[args.decay].val[1]

\* step0 * decay^k, multiplied out from the left.
RECURSIVE StepAfter(_, _, _)
StepAfter(s0, d, k) == IF k = 0 THEN s0 ELSE FMul(StepAfter(s0, d, k - 1), d)

\* C1 (safety part): the loop updates x at most niter times, it is left only
\* after exactly niter updates, and with niter = 0 the object returned is x0.
ExactlyNiterSteps ==
  /\ updates <= args.niter
  /\ pc \in {"gd85", "nt115", "done"} => updates = args.niter
  /\ Returned => Len(xs) = args.niter + 1
  /\ (Returned /\ args.niter = 0) => (ret = args.x0 /\ heap[ret] = callerHeap[args.x0])

\* The lines a running call has still to execute before it has returned.
Remaining ==
  LET left == args.niter - 1 - i
  IN  CASE pc = "gd80" -> 3 * left + 4
        [] pc = "gd81" -> 3 * left + 3
        [] pc = "gd82" -> 3 * left + 2
        [] pc = "gd83" -> 3 * left + 4
        [] pc = "gd84" -> 3 * left + 3
        [] pc = "gd85" -> 1
        [] pc = "nt110" -> 2 * left + 5
        [] pc = "nt111" -> 2 * left + 4
        [] pc = "nt112" -> 2 * left + 3
        [] pc = "nt113" -> 2 * left + 2
        [] pc = "nt114" -> 2 * left + 3
        [] pc = "nt115" -> 1
        [] OTHER -> 0

\* C1: every call of gd and of newton returns (a running call is at a line
\* of its routine, and each line it executes brings the return one line
\* nearer), after exactly niter updates of x, never fewer and never more;
\* with niter = 0 it returns x0.
C1_ExactlyNiter ==
  /\ [](ExactlyNiterSteps /\ (Running <=> Remaining > 0) /\ Remaining >= 0)
  /\ [][Running => Remaining' = Remaining - 1]_vars

\* C1's case: x stopped moving before the last iteration, and the loop ran
\* all niter iterations all the same.
C1_Witness ==
  /\ Returned
  /\ args.niter >= 2
  /\ updates = args.niter
  /\ xs[Len(xs) - 1].val = xs[Len(xs)].val

\* C2: in gd, after k completed iterations the step size is step0 * decay^k,
\* whatever f and x are.
C2_StepDecay ==
  (proc = "gd" /\ pc \in {"gd82", "gd83", "gd85", "done"}) =>
     /\ Len(stepLog) = updates + 1
     /\ \A k \in 0..updates : stepLog[k + 1].val[1] = StepAfter(Step0, Decay0, k)
     /\ heap[step] = stepLog[updates + 1]

C2_Witness ==
  /\ proc = "gd"
  /\ Returned
  /\ updates = 2
  /\ Decay0 = Flt(1, 2)
  /\ Step0 = Flt(1, 1)
  /\ heap[step].val[1] = Flt(1, 4)

\* x0 - c and its double are computed without rounding and without overflow.
ExactDifference(x0v, c) ==
  /\ IsFinite(x0v)
  /\ IsFinite(c)
  /\ FSub(x0v, c) = Fin(x0v.n - c.n)
  /\ FMul(Two, Fin(x0v.n - c.n)) = Fin(2 * (x0v.n - c.n))

NewtonOnQuad == proc = "newton" /\ args.f.kind = "quad" /\ Len(xs) >= 1

\* C3 as stated: for f(x) = (x-c)^2 and any x0, newton is at c after one
\* iteration and after every later one, and returns c when niter >= 1.
C3_Original ==
  NewtonOnQuad =>
     /\ \A k \in 2..Len(xs) : xs[k].val = <<args.f.c>>
     /\ (Returned /\ args.niter >= 1) => heap[ret].val = <<args.f.c>>

\* C3, amended: for f(x) = (x-c)^2 and an x0 for which x0 - c and 2(x0 - c)
\* are computed exactly, newton is at c after one iteration and after every
\* later one, and returns c when niter >= 1.
C3_NewtonExactOnQuad ==
  (NewtonOnQuad /\ ExactDifference(xs[1].val[1], args.f.c)) =>
     /\ \A k \in 2..Len(xs) : xs[k].val = <<args.f.c>>
     /\ (Returned /\ args.niter >= 1) => heap[ret].val = <<args.f.c>>

C3_Witness ==
  /\ NewtonOnQuad
  /\ ExactDifference(xs[1].val[1], args.f.c)
  /\ xs[1].val # <<args.f.c>>
  /\ Returned
  /\ args.niter >= 2
  /\ heap[ret].val = <<args.f.c>>

\* gd on f(x) = x^2 with decay = 1 and 0 < step <= 1
GdOnSquare ==
  /\ proc = "gd"
  /\ args.f = Quad(Zero)
  /\ Len(xs) >= 1
  /\ Decay0 = Flt(1, 1)
  /\ Step0.n > 0
  /\ FLe(Step0, Flt(1, 1))

ObjectiveNeverIncreases ==
  \A k \in 1..(Len(xs) - 1) :
     FLe(Apply(args.f, xs[k + 1].val)[1], Apply(args.f, xs[k].val)[1])

\* C4 as stated: gd on f(x) = x^2 from any x0, with decay = 1 and a step in
\* (0, 1], never increases the objective: f(x_{k+1}) <= f(x_k).
C4_Original == GdOnSquare => ObjectiveNeverIncreases

\* C4, amended: the same for every x0 whose gradient 2*x0 does not overflow.
C4_MonotoneOnSquare ==
  (GdOnSquare /\ IsFinite(FMul(Two, xs[1].val[1]))) => ObjectiveNeverIncreases

C4_Witness ==
  /\ GdOnSquare
  /\ IsFinite(FMul(Two, xs[1].val[1]))
  /\ Returned
  /\ updates >= 2
  /\ xs[1].val # xs[2].val
  /\ Apply(args.f, xs[2].val) # Apply(args.f, xs[1].val)

\* C5: newton with niter >= 1 and ddf(x0) = 0: x is not finite after the
\* first iteration nor after any later one, all niter iterations are made
\* (nothing is raised) and the value returned is not finite.
C5_ZeroSecondDerivative ==
  (proc = "newton" /\ Len(xs) >= 1 /\ AllZero(Apply(Grad(Grad(args.f)), xs[1].val))) =>
     /\ \A k \in 2..Len(xs) : NoneFinite(xs[k].val)
     /\ (Returned /\ args.niter >= 1) =>
           (updates = args.niter /\ NoneFinite(heap[ret].val))

C5_Witness ==
  /\ proc = "newton"
  /\ Returned
  /\ args.niter >= 2
  /\ IsFinite(xs[1].val[1])
  /\ AllZero(Apply(Grad(Grad(args.f)), xs[1].val))
  /\ NoneFinite(heap[ret].val)

C8_GradOncePerOrder ==
  /\ proc = "gd" =>
       /\ pc = "gd80" => gradCalls = 0
       /\ pc # "gd80" => (gradCalls = 1 /\ df = Grad(args.f))
  /\ proc = "newton" =>
       /\ pc = "nt110" => gradCalls = 0
       /\ pc = "nt111" => (gradCalls = 1 /\ df = Grad(args.f))
       /\ pc \notin {"nt110", "nt111"} =>
            (gradCalls = 2 /\ df = Grad(args.f) /\ ddf = Grad(Grad(args.f)))

C8_Witness ==
  /\ proc = "gd"
  /\ Returned
  /\ updates = MaxIter
  /\ gradCalls = 1

\* C9: in gd the k-th update (k from 0) multiplies by step0 * decay^k: the
\* first by step0 itself, and the step decayed last is never used.
C9_UpdateBeforeDecay ==
  proc = "gd" =>
     /\ Len(used) = updates
     /\ \A k \in 1..Len(used) :
           /\ used[k] = StepAfter(Step0, Decay0, k - 1)
           /\ used[k] = stepLog[k].val[1]
           /\ xs[k + 1].val =
                VSub(xs[k].val, VScale(Apply(Grad(args.f), xs[k].val), used[k]))
     /\ Returned => Len(stepLog) = Len(used) + 1

C9_Witness ==
  /\ proc = "gd"
  /\ Returned
  /\ updates = 2
  /\ Decay0 = Flt(1, 2)
  /\ used = <<Step0, FMul(Step0, Decay0)>>
  /\ stepLog[3].val[1] # used[2]

GdFixedAt(k) ==
  AllZero(Apply(Grad(args.f), xs[k].val)) => xs[k + 1].val = xs[k].val

NewtonFixedAt(k) ==
  (/\ AllZero(Apply(Grad(args.f), xs[k].val))
   /\ ~AllZero(Apply(Grad(Grad(args.f)), xs[k].val))) => xs[k + 1].val = xs[k].val

\* C10 as stated: a point where df is 0 (and, in newton, ddf is not 0) is
\* kept by every remaining iteration, for any step and decay.
C10_Original ==
  /\ proc = "gd" => \A k \in 1..(Len(xs) - 1) : GdFixedAt(k)
  /\ proc = "newton" => \A k \in 1..(Len(xs) - 1) : NewtonFixedAt(k)

\* C10, amended: in gd, as long as the step size is finite.
C10_CriticalPointsFixed ==
  /\ proc = "gd" => \A k \in 1..(Len(xs) - 1) : IsFinite(used[k]) => GdFixedAt(k)
  /\ proc = "newton" => \A k \in 1..(Len(xs) - 1) : NewtonFixedAt(k)

C10_Witness ==
  /\ proc = "gd"
  /\ Returned
  /\ updates >= 2
  /\ Decay0 # Flt(1, 1)
  /\ AllZero(Apply(Grad(args.f), xs[1].val))
  /\ xs[1].val # <<Zero>>
  /\ heap[ret].val = xs[1].val
=============================================================================
